---------------------------- MODULE Spec2Model ----------------------------
(***************************************************************************)
(* Model of bookwyrm/book_search.py: local catalog search.                 *)
(*                                                                         *)
(* The Edition table is a sequence of rows indexed by primary key.  A      *)
(* string is a sequence of one-character strings, so that strip, upper     *)
(* and rjust are computed as Python computes them.  A QuerySet is modelled *)
(* by the rows it yields when evaluated: a sequence of primary keys.       *)
(* Evaluating a QuerySet either yields rows or raises the database error   *)
(* "more than one row returned by a subquery used as an expression".       *)
(***************************************************************************)
EXTENDS Integers, Sequences, FiniteSets

VARIABLES catalog, call

vars == <<catalog, call>>

-----------------------------------------------------------------------------
(* Bounds and input domains *)

MaxEditions == 2
MaxQueryLen == 3
MaxRank == 2

Alphabet == {" ", "x"}
Whitespace == {" "}
Works == {1, 2}
User == "user"

\* every string of at most n characters over an alphabet
Strings(A, n) == UNION {[1..k -> A] : k \in 0..n}

Queries == Strings(Alphabet, MaxQueryLen)

-----------------------------------------------------------------------------
(* Python string methods *)

RECURSIVE LStrip(_)
LStrip(s) == IF s # <<>> /\ Head(s) \in Whitespace THEN LStrip(Tail(s)) ELSE s

RECURSIVE RStrip(_)
RStrip(s) ==
    IF s # <<>> /\ s[Len(s)] \in Whitespace
    THEN RStrip(SubSeq(s, 1, Len(s) - 1))
    ELSE s

\* str.strip()
Strip(s) == RStrip(LStrip(s))

UpperChar(c) == IF c = "x" THEN "X" ELSE c

\* str.upper()
Upper(s) == [i \in 1..Len(s) |-> UpperChar(s[i])]

\* str.rjust(width, fill)
Rjust(s, width, fill) ==
    IF Len(s) >= width THEN s ELSE [i \in 1..(width - Len(s)) |-> fill] \o s

IsbnWidth == 10

\* a variant that prepends a single zero to a short string
NormalizeIsbn_OneZero(query) ==
    IF Len(Strip(query)) >= IsbnWidth
    THEN Upper(Strip(query))
    ELSE <<"0">> \o Upper(Strip(query))

\* query.strip().upper().rjust(10, "0")
NormalizeIsbn(query) == Rjust(Upper(Strip(query)), IsbnWidth, "0")

\* " " in query
HasSpace(s) == \E i \in 1..Len(s) : s[i] = " "

-----------------------------------------------------------------------------
(* The database: Edition rows, filters, QuerySets *)

\* the Edition fields flagged deduplication_field (declared on the model class)
DedupFields == {"isbn_10", "isbn_13"}

\* the rows of models.Edition.objects, by primary key
AllRows(cat) == 1..Len(cat)

\* a Q object of the filters list holds of an Edition row (an Edition is
\* joined to at most one ShelfBook row of the user)
QHolds(q, e) ==
    CASE q.field = "shelfbook__user" -> e.shelved /\ q.value = User
      [] q.field = "parent_work"     -> e.parent_work = q.value

\* .filter(*filters, ...): every positional Q object holds
PassFilters(filters, e) == \A i \in 1..Len(filters) : QHolds(filters[i], e)

\* the primary keys of a set of rows in primary-key order
RECURSIVE PkOrder(_)
PkOrder(S) ==
    IF S = {} THEN <<>>
    ELSE LET m == CHOOSE x \in S : \A y \in S : x <= y
         IN <<m>> \o PkOrder(S \ {m})

\* a start scope that is not given, or an empty QuerySet, is falsy
StartIsFalsy(start) == ~start.given \/ start.rows = {}

\* objects = start or models.Edition.objects
Objects(cat, start) ==
    IF StartIsFalsy(start) THEN AllRows(cat) ELSE start.rows

NoStart == [given |-> FALSE, rows |-> {}]

\* what a call hands back
Rows(seq) == [kind |-> "rows", rows |-> seq]
One(pk) == [kind |-> "one", rows |-> <<pk>>]
NoneResult == [kind |-> "none", rows |-> <<>>]
DbError == [kind |-> "error", rows |-> <<>>]

\* QuerySet.first(): the row of least primary key, or None
First(seq) ==
    IF seq = <<>> THEN NoneResult
    ELSE One(CHOOSE x \in {seq[i] : i \in 1..Len(seq)} :
                 \A j \in 1..Len(seq) : x <= seq[j])

\* `not results`: None, an empty list and an empty QuerySet are falsy
Falsy(res) == res.kind = "none" \/ (res.kind = "rows" /\ res.rows = <<>>)

SeqToSet(seq) == {seq[i] : i \in 1..Len(seq)}

-----------------------------------------------------------------------------
(* search_identifiers *)

\* a variant that never normalises the ISBN
IdentifierKey_Raw(query, isbnLike) == query

\* the value compared with the deduplication fields
IdentifierKey(query, isbnLike) ==
    IF isbnLike THEN NormalizeIsbn(query) ELSE query

\* reduce(operator.or_, (Q(**f) for f in or_filters))
MatchesAnyDedupField(e, key) == \E f \in DedupFields : e[f] = key

\* objects.filter(*filters, <or of the dedup fields>).distinct()
IdentifierRows(cat, key, filters, start) ==
    {pk \in Objects(cat, start) \cap AllRows(cat) :
        PassFilters(filters, cat[pk]) /\ MatchesAnyDedupField(cat[pk], key)}

search_identifiers(cat, query, filters, return_first, start, isbnLike) ==
    LET results == PkOrder(IdentifierRows(cat, IdentifierKey(query, isbnLike),
                                          filters, start))
    IN IF return_first THEN First(results) ELSE Rows(results)

-----------------------------------------------------------------------------
(* search_title_author *)

\* The full-text engine is the database's: for one query it gives every
\* Edition row a verdict (search_vector @@ query) and a SearchRank.
TextOutcomes(cat) == [AllRows(cat) -> [match : BOOLEAN, rank : 0..MaxRank]]

\* .filter(*filters, search_vector=query).annotate(rank=...).filter(rank__gt=min_confidence)
RankedRows(cat, text, min_confidence, filters, start) ==
    {pk \in Objects(cat, start) \cap AllRows(cat) :
        /\ PassFilters(filters, cat[pk])
        /\ text[pk].match
        /\ text[pk].rank > min_confidence}

\* .order_by("-rank"); rows of equal rank come in primary-key order here
RECURSIVE OrderByRankDesc(_, _)
OrderByRankDesc(S, text) ==
    IF S = {} THEN <<>>
    ELSE LET m == CHOOSE x \in S :
                    \A y \in S : \/ text[x].rank > text[y].rank
                                 \/ (text[x].rank = text[y].rank /\ x <= y)
         IN <<m>> \o OrderByRankDesc(S \ {m}, text)

\* A SQL value: NULL or an integer
Null == [null |-> TRUE, v |-> 0]
Val(n) == [null |-> FALSE, v |-> n]

\* Subquery(queryset.values(column)) with no OuterRef: an uncorrelated scalar
\* subquery. No row gives NULL, one row gives its value, and more than one
\* row makes the database raise when the expression is evaluated.
ScalarSubquery(column) ==
    [err |-> Len(column) > 1,
     val |-> IF Len(column) = 0 THEN Null ELSE Val(column[1])]

\* ORDER BY key ASC puts a before b (NULLs sort last)
SortsBefore(a, b) == ~a.null /\ (b.null \/ a.v < b.v)

\* Window(Rank(), partition_by=[F("parent_work__id")], order_by=key.asc()):
\* one more than the number of rows of the partition that sort before the row
WindowRank(cat, key, pk) ==
    1 + Cardinality({p \in AllRows(cat) :
                        /\ cat[p].parent_work = cat[pk].parent_work
                        /\ SortsBefore(key[p], key[pk])})

\* the dedup query: search_rank annotates every Edition row with the same
\* scalar subquery over results; rank is the window rank; books keeps the
\* Edition rows for which a second scalar subquery, over the window ranks of
\* the whole table, equals 1
DedupBooks(cat, results, text) ==
    LET search_rank == ScalarSubquery([i \in 1..Len(results) |-> text[results[i]].rank])
        key == [p \in AllRows(cat) |-> search_rank.val]
        window == [p \in AllRows(cat) |-> WindowRank(cat, key, p)]
        rank == ScalarSubquery(window)
    IN IF search_rank.err \/ rank.err
       THEN DbError
       ELSE Rows(PkOrder({p \in AllRows(cat) : ~rank.val.null /\ rank.val.v = 1}))

search_title_author(cat, text, min_confidence, filters, return_first, dedup, start) ==
    LET results == OrderByRankDesc(
                       RankedRows(cat, text, min_confidence, filters, start), text)
        books == DedupBooks(cat, results, text)
    IN IF ~dedup THEN Rows(results)
       ELSE IF books.kind = "error" THEN DbError
       ELSE IF return_first THEN First(books.rows)
       ELSE books

-----------------------------------------------------------------------------
(* _generic_search, search, search_user_shelves, isbn_search *)

\* a variant that tries the identifiers for every query
TriesIdentifiers_Always(query) == TRUE

\* if not " " in query
TriesIdentifiers(query) == ~HasSpace(query)

\* The outcome records which searches ran. dedup is a parameter that is not
\* handed on: search_title_author runs with its own default, dedup=True.
_generic_search(cat, query, min_confidence, filters, return_first, dedup, start, isbnLike, text) ==
    IF query = <<>>
    THEN [identCalled |-> FALSE, titleCalled |-> FALSE, res |-> Rows(<<>>)]
    ELSE LET q == Strip(query)
             ident == TriesIdentifiers(q)
             byId == IF ident
                     THEN search_identifiers(cat, q, filters, return_first, start, isbnLike)
                     ELSE NoneResult
         IN IF Falsy(byId)
            THEN [identCalled |-> ident, titleCalled |-> TRUE,
                  res |-> search_title_author(cat, text, min_confidence, filters,
                                              return_first, TRUE, start)]
            ELSE [identCalled |-> ident, titleCalled |-> FALSE, res |-> byId]

search(cat, query, min_confidence, filters, return_first, isbnLike, text) ==
    _generic_search(cat, query, min_confidence, filters, return_first, TRUE,
                    NoStart, isbnLike, text)

ShelfFilter == [field |-> "shelfbook__user", value |-> User]

search_user_shelves(cat, query, min_confidence, filters, return_first, start, isbnLike, text) ==
    _generic_search(cat, query, min_confidence, filters \o <<ShelfFilter>>,
                    return_first, FALSE, start, isbnLike, text)

isbn_search(cat, query) ==
    IF query = <<>> THEN Rows(<<>>)
    ELSE Rows(PkOrder({pk \in AllRows(cat) :
                          \/ cat[pk].isbn_10 = NormalizeIsbn(query)
                          \/ cat[pk].isbn_13 = NormalizeIsbn(query)}))

-----------------------------------------------------------------------------
(* Catalogs and inputs the calls are explored on *)

Blank == <<>>
RawX == <<"x">>
PaddedX == NormalizeIsbn(RawX)
Isbn10 == <<"0", "7", "4", "7", "5", "3", "2", "6", "9", "9">>
Isbn9 == Tail(Isbn10)

\* editions told apart by their identifiers and their shelf
DispatchEditions ==
    [parent_work : {1}, isbn_10 : {Blank, RawX},
     isbn_13 : {Blank, PaddedX}, shelved : BOOLEAN]

\* editions told apart by their work and their shelf
RankEditions ==
    [parent_work : Works, isbn_10 : {Blank, RawX},
     isbn_13 : {Blank}, shelved : BOOLEAN]

\* editions told apart by their ISBNs
IsbnEditions ==
    [parent_work : {1}, isbn_10 : {Blank, RawX, PaddedX, Isbn10},
     isbn_13 : {Blank, PaddedX}, shelved : {FALSE}]

Catalogs(E) == UNION {[1..n -> E] : n \in 0..MaxEditions}

\* the engine matches every row with rank 1, or no row
CoarseTexts(cat) ==
    {[pk \in AllRows(cat) |-> [match |-> b, rank |-> IF b THEN 1 ELSE 0]] :
        b \in BOOLEAN}

\* connectors.maybe_isbn(query): the connectors module decides whether a
\* string plausibly encodes an ISBN; either answer is possible here
MaybeIsbnAnswers == BOOLEAN

StartScopes == {NoStart, [given |-> TRUE, rows |-> {}], [given |-> TRUE, rows |-> {1}]}

WorkFilter == [field |-> "parent_work", value |-> 1]

MinConfidences == 0..1

RankQueries == {<<"x", " ", "x">>, <<"x">>}

IsbnQueries == Strings(Alphabet \cup {"0"}, MaxQueryLen) \cup {Isbn9, Isbn10}

-----------------------------------------------------------------------------
(* The state machine: a catalog, and one call with what it returned.  The   *)
(* functions keep nothing between calls (each builds and runs its own      *)
(* query), so a behaviour is one call on one catalog.                      *)

NoText == [pk \in AllRows(catalog) |-> [match |-> FALSE, rank |-> 0]]

Idle ==
    [op |-> "idle", query |-> <<>>, min_confidence |-> 0, filters |-> <<>>,
     return_first |-> FALSE, dedup |-> TRUE, start |-> NoStart,
     isbnLike |-> FALSE, text |-> NoText,
     identCalled |-> FALSE, titleCalled |-> FALSE, res |-> Rows(<<>>)]

InitOn(E) == catalog \in Catalogs(E) /\ call = Idle

Init == InitOn(DispatchEditions)
InitRank == InitOn(RankEditions)
InitIsbn == InitOn(IsbnEditions)

\* search(query, min_confidence, filters, return_first)
CallSearch(Q, MC, FS, Texts) ==
    /\ call.op = "idle"
    /\ \E q \in Q, mc \in MC, f \in FS, rf \in BOOLEAN,
          isbnLike \in MaybeIsbnAnswers, text \in Texts :
          LET out == search(catalog, q, mc, f, rf, isbnLike, text)
          IN call' = [op |-> "search", query |-> q, min_confidence |-> mc,
                      filters |-> f, return_first |-> rf, dedup |-> TRUE,
                      start |-> NoStart, isbnLike |-> isbnLike, text |-> text,
                      identCalled |-> out.identCalled,
                      titleCalled |-> out.titleCalled, res |-> out.res]
    /\ UNCHANGED catalog

\* search_user_shelves(query, user, min_confidence, filters, return_first, start)
CallSearchUserShelves(Q, MC, FS, SS, Texts) ==
    /\ call.op = "idle"
    /\ \E q \in Q, mc \in MC, f \in FS, rf \in BOOLEAN, st \in SS,
          isbnLike \in MaybeIsbnAnswers, text \in Texts :
          LET out == search_user_shelves(catalog, q, mc, f, rf, st, isbnLike, text)
          IN call' = [op |-> "search_user_shelves", query |-> q,
                      min_confidence |-> mc, filters |-> f \o <<ShelfFilter>>,
                      return_first |-> rf, dedup |-> FALSE,
                      start |-> st, isbnLike |-> isbnLike, text |-> text,
                      identCalled |-> out.identCalled,
                      titleCalled |-> out.titleCalled, res |-> out.res]
    /\ UNCHANGED catalog

\* search_title_author(query, min_confidence, *filters, return_first, dedup, start)
CallSearchTitleAuthor(Q, MC, FS, SS, Texts) ==
    /\ call.op = "idle"
    /\ \E q \in Q, mc \in MC, f \in FS, rf \in BOOLEAN, dd \in BOOLEAN,
          st \in SS, text \in Texts :
          call' = [op |-> "search_title_author", query |-> q,
                   min_confidence |-> mc, filters |-> f,
                   return_first |-> rf, dedup |-> dd,
                   start |-> st, isbnLike |-> FALSE, text |-> text,
                   identCalled |-> FALSE, titleCalled |-> TRUE,
                   res |-> search_title_author(catalog, text, mc, f, rf, dd, st)]
    /\ UNCHANGED catalog

\* isbn_search(query)
CallIsbnSearch(Q) ==
    /\ call.op = "idle"
    /\ \E q \in Q :
          call' = [Idle EXCEPT !.op = "isbn_search", !.query = q,
                               !.res = isbn_search(catalog, q)]
    /\ UNCHANGED catalog

\* dispatch: identifier search against text search
Next ==
    \/ CallSearch(Queries, {0}, {<<>>}, CoarseTexts(catalog))
    \/ CallSearchUserShelves(Queries, {0}, {<<>>}, StartScopes, CoarseTexts(catalog))

Spec == Init /\ [][Next]_vars

\* ranking and deduplication
NextRank ==
    \/ CallSearch(RankQueries, MinConfidences, {<<>>, <<WorkFilter>>}, TextOutcomes(catalog))
    \/ CallSearchUserShelves(RankQueries, MinConfidences, {<<>>}, {NoStart}, TextOutcomes(catalog))
    \/ CallSearchTitleAuthor(RankQueries, MinConfidences, {<<>>, <<ShelfFilter>>},
                             {NoStart}, TextOutcomes(catalog))

SpecRank == InitRank /\ [][NextRank]_vars

\* ISBN lookup
NextIsbn == CallIsbnSearch(IsbnQueries)

SpecIsbn == InitIsbn /\ [][NextIsbn]_vars

-----------------------------------------------------------------------------
(* What the properties speak about *)

\* the call went through _generic_search
ViaGeneric == call.op \in {"search", "search_user_shelves"}

\* the Editions the call returned
Returned == SeqToSet(call.res.rows)

\* the title/author search ran with deduplication by Work
DedupRan ==
    call.titleCalled /\ (call.op = "search_title_author" => call.dedup)

\* the scope a call searches: start, or the whole table without one
InScope(pk) ==
    IF call.start.given /\ call.start.rows # {}
    THEN pk \in call.start.rows
    ELSE pk \in AllRows(catalog)

\* the Editions the text query matches above min_confidence, within the
\* scope and the filters of the call
Matching ==
    {pk \in AllRows(catalog) :
        /\ InScope(pk)
        /\ PassFilters(call.filters, catalog[pk])
        /\ call.text[pk].match
        /\ call.text[pk].rank > call.min_confidence}

\* the identifier a query is looked up by
LookupKey ==
    IF call.isbnLike
    THEN Rjust(Upper(Strip(call.query)), 10, "0")
    ELSE Strip(call.query)

\* the Editions holding the lookup key in a deduplication field
Holders ==
    {pk \in AllRows(catalog) :
        catalog[pk].isbn_10 = LookupKey \/ catalog[pk].isbn_13 = LookupKey}

\* ... that also lie in the scope and pass every filter of the call
HoldersInScope ==
    {pk \in Holders : InScope(pk) /\ PassFilters(call.filters, catalog[pk])}

-----------------------------------------------------------------------------
(* Properties *)

\* C1: search_user_shelves never deduplicates by Work: when the title/author
\* search ran and two Editions of one Work on the user's shelves both match
\* above min_confidence, both are in the result.
C1_ShelvesKeepEveryEdition ==
    (call.op = "search_user_shelves" /\ call.titleCalled /\ ~call.return_first) =>
        \A a, b \in Matching :
            (a # b /\ catalog[a].parent_work = catalog[b].parent_work) =>
                (call.res.kind = "rows" /\ {a, b} \subseteq Returned)

\* C2: every Edition search_user_shelves returns is on a shelf of the user and
\* passes every filter, whichever search produced the result.
C2_ShelvesScoped ==
    call.op = "search_user_shelves" =>
        \A pk \in Returned : PassFilters(call.filters, catalog[pk])

\* C3: a deduplicated title/author search yields a result set in which no two
\* Editions share a parent Work.
C3_OneEditionPerWork ==
    DedupRan =>
        /\ call.res.kind # "error"
        /\ \A a, b \in Returned :
              a # b => catalog[a].parent_work # catalog[b].parent_work

\* C4: a deduplicated title/author search yields a result set in which every
\* Edition ranks at least as high as each matching Edition of its Work.
C4_TopRankedPerWork ==
    DedupRan =>
        /\ call.res.kind # "error"
        /\ \A e \in Returned : \A f \in Matching :
              catalog[f].parent_work = catalog[e].parent_work =>
                  call.text[e].rank >= call.text[f].rank

\* C5: no Edition returned by the title/author search has a rank of
\* min_confidence or less.
C5_MinConfidenceFilters ==
    call.titleCalled =>
        \A pk \in Returned : call.text[pk].rank > call.min_confidence

\* C6: an empty or whitespace-only query to search() returns an empty
\* sequence at once: neither search runs.
C6_BlankQueryReturnsEmpty ==
    (call.op = "search" /\ Strip(call.query) = <<>>) =>
        /\ ~call.identCalled
        /\ ~call.titleCalled
        /\ call.res = Rows(<<>>)

\* C7 as claimed: for a query without a space whose normalized form is the
\* value of a deduplication field of some Edition, _generic_search returns
\* that Edition from search_identifiers and the title/author search never runs.
C7_AnyHolderWins ==
    (ViaGeneric /\ ~HasSpace(call.query)) =>
        \A pk \in Holders :
            /\ call.identCalled
            /\ ~call.titleCalled
            /\ pk \in Returned

\* C7 amended: for a non-empty query without a space whose lookup key is held,
\* in a deduplication field, by some Edition within the scope and the filters
\* of the call, the result comes from search_identifiers (every such Edition,
\* or one of them under return_first) and the title/author search never runs.
C7_HolderInScopeWins ==
    (ViaGeneric /\ call.query # <<>> /\ ~HasSpace(call.query)
                /\ HoldersInScope # {}) =>
        /\ call.identCalled
        /\ ~call.titleCalled
        /\ IF call.return_first
           THEN call.res.kind = "one" /\ Returned \subseteq HoldersInScope
                /\ Returned # {}
           ELSE call.res.kind = "rows" /\ Returned = HoldersInScope

\* an ISBN-like query was normalised and found an Edition on the user's
\* shelves while another holder of the identifier lay outside the filters
C7_Witness ==
    /\ call.op = "search_user_shelves"
    /\ call.query = RawX
    /\ call.isbnLike
    /\ call.return_first
    /\ call.res.kind = "one"
    /\ Returned \subseteq HoldersInScope
    /\ HoldersInScope # Holders
    /\ ~call.titleCalled

\* C8 as claimed: a query with a space anywhere in the string as passed skips
\* search_identifiers; only the title/author search runs.
C8_AnySpaceSkipsIdentifiers ==
    (ViaGeneric /\ HasSpace(call.query)) =>
        (~call.identCalled /\ call.titleCalled)

\* C8 amended: a query that still has a space once its leading and trailing
\* whitespace is stripped skips search_identifiers; only the title/author
\* search runs.
C8_InnerSpaceSkipsIdentifiers ==
    (ViaGeneric /\ HasSpace(Strip(call.query))) =>
        (~call.identCalled /\ call.titleCalled)

\* a query with an inner space went to the title/author search although the
\* identifier search would have found its stripped form
C8_Witness ==
    /\ ViaGeneric
    /\ call.query = <<"x", " ", "x">>
    /\ ~call.identCalled
    /\ call.titleCalled
    /\ Len(catalog) > 0

\* C9: the title/author search yields a sequence that never increases in
\* rank, with deduplication and without.
C9_DescendingRank ==
    call.titleCalled =>
        /\ call.res.kind # "error"
        /\ \A i, j \in 1..Len(call.res.rows) :
              i < j => call.text[call.res.rows[i]].rank
                         >= call.text[call.res.rows[j]].rank

\* C10: normalising a normalised ISBN changes nothing, and isbn_search gives
\* the same Editions for a non-empty query and for its normalised form; the
\* ISBN with its leading zero missing finds what the full ISBN finds.
C10_IsbnSearchNormalises ==
    (call.op = "isbn_search" /\ call.query # <<>>) =>
        /\ NormalizeIsbn(NormalizeIsbn(call.query)) = NormalizeIsbn(call.query)
        /\ call.res = isbn_search(catalog, NormalizeIsbn(call.query))
        /\ (call.query = Isbn9 => call.res = isbn_search(catalog, Isbn10))

\* the ISBN without its leading zero found the Edition stored under the
\* ten-character ISBN
C10_Witness ==
    /\ call.op = "isbn_search"
    /\ call.query = Isbn9
    /\ \E pk \in Returned : catalog[pk].isbn_10 = Isbn10

=============================================================================
